---- MODULE Spec2Model ----
(***************************************************************************)
(* Bully leader election, heartbeat monitor and node startup of the        *)
(* distinsta server (src/src/bully.rs, src/src/server.rs).                 *)
(*                                                                         *)
(* Every node runs several tasks: the main task (ServerNode::start), the   *)
(* heartbeat monitor, one handler per accepted connection and the election *)
(* tasks spawned by handled Election messages.  A step of the model is one *)
(* stretch of one task between two suspension points (network call, sleep, *)
(* lock acquisition).                                                      *)
(***************************************************************************)
EXTENDS Integers, FiniteSets, Sequences, TLC

\* main() registers the peers 1..=3 (server.rs:259): the cluster has 3 nodes.
NumNodes == 3
Nodes == 1..NumNodes

\* An id outside the configured cluster: a process that is in nobody's registry
\* and still can open a connection and write a BullyMessage.
ForeignId == NumNodes + 1
Ids == 0..ForeignId

\* Option<u32>::None.  Ids are u32, so no id collides with it.
None == -1

\* ---- bounds of the model ----
\* election tasks spawned by handle_message that one node runs at a time
MaxSpawn == 1
\* copies of one message waiting unhandled at one node
MaxCopies == 1
\* nodes that stop for good
MaxCrashes == 1
\* messages written by the foreign process
MaxForeign == 1
\* direct calls made on one BullyElection
MaxCalls == 2
\* the request hashes run from 0 to MaxHash
MaxHash == 5
\* calls that take the write lock of LoadBalancer.servers
MaxOps == 6
\* the loads run from 0 to MaxLoad
MaxLoad == 2
\* tasks of one node that call methods of its BullyElection at the same time
MaxTasks == 3

MainSlot == 0
MonitorSlot == 1
SpawnSlots == 2..(MaxSpawn + 1)
Slots == {MainSlot, MonitorSlot} \cup SpawnSlots

VARIABLES
    peers,           \* BullyElection.peers: node -> set of registered ids
    current_leader,  \* BullyElection.current_leader: node -> id or None
    leader_alive,    \* BullyElection.leader_alive: node -> BOOLEAN
    load_balancer,   \* ServerNode.load_balancer is Some: node -> BOOLEAN
    main,            \* position of ServerNode::start
    monitor,         \* position of the start_leader_monitoring task
    elec,            \* node -> slot -> the start_election call running there
    inbox,           \* node -> message -> connections carrying it, not yet handled
    crashes,         \* nodes stopped so far
    foreign,         \* messages the foreign process has written so far
    call,            \* the last direct call of a method of BullyElection
    request,         \* node -> the handle_client_request call running there
    servers,         \* LoadBalancer.servers: server id -> ServerLoad
    next_index,      \* LoadBalancer.next_index
    values_order,    \* the order in which servers.values() yields the entries
    lb_call,         \* the last call of a method of LoadBalancer
    history,         \* the ids registered and the ids returned, in order
    task,            \* task -> the method of BullyElection it runs and where
    holders,         \* lock -> the tasks holding it, each with its mode
    waiters          \* lock -> the queue of the tasks waiting for it

\* The state of one LoadBalancer and of its caller.
balancer_vars == <<servers, next_index, values_order, lb_call, history>>

\* The tasks of one node at the locks of its BullyElection.
lock_vars == <<task, holders, waiters>>

\* The state of the nodes.
node_vars == <<peers, current_leader, leader_alive, load_balancer, main, monitor,
               elec, inbox, crashes, foreign, call, request>>

vars == <<node_vars, balancer_vars, lock_vars>>

\* ---- BullyMessage (bully.rs:10-16) ----
Election(from_id) == [kind |-> "Election", id |-> from_id]
Answer(from_id) == [kind |-> "Answer", id |-> from_id]
Coordinator(leader_id) == [kind |-> "Coordinator", id |-> leader_id]
Heartbeat(from_id) == [kind |-> "Heartbeat", id |-> from_id]
HeartbeatAck(from_id) == [kind |-> "HeartbeatAck", id |-> from_id]
\* Option<BullyMessage>::None
NoMessage == [kind |-> "None", id |-> None]

BullyMessage ==
    [kind : {"Election", "Answer", "Coordinator", "Heartbeat", "HeartbeatAck"}, id : Ids]

\* The messages whose handling changes the receiver: they are kept until handled.
\* A Heartbeat that waits at a node that is not accepting yet is answered to a
\* stream its sender has dropped (server.rs:109 ignores the write's result).
Pending == {Election(f) : f \in Nodes} \cup {Coordinator(l) : l \in Ids}

\* ---- the election state of one node ----
ElectionState(n) ==
    [current_leader |-> current_leader[n], leader_alive |-> leader_alive[n]]

\* set_leader marking the leader alive only when the leader changes.
set_leader_on_change(s, leader_id) ==
    [current_leader |-> leader_id, leader_alive |-> s.current_leader # leader_id]

set_leader(s, leader_id) ==
    [current_leader |-> leader_id, leader_alive |-> TRUE]

\* handle_message answering an Election from its own id too.
handle_message_ge(node_id, s, msg) ==
    CASE msg.kind = "Election" ->
            IF node_id >= msg.id
            THEN [reply |-> Answer(node_id), state |-> s, spawn |-> TRUE]
            ELSE [reply |-> NoMessage, state |-> s, spawn |-> FALSE]
      [] msg.kind = "Coordinator" ->
            [reply |-> NoMessage, state |-> set_leader(s, msg.id), spawn |-> FALSE]
      [] msg.kind = "Heartbeat" ->
            [reply |-> HeartbeatAck(node_id), state |-> s, spawn |-> FALSE]
      [] OTHER ->
            [reply |-> NoMessage, state |-> s, spawn |-> FALSE]

\* handle_message taking a Coordinator only from an id that is not below its own.
handle_message_guarded(node_id, s, msg) ==
    CASE msg.kind = "Election" ->
            IF node_id > msg.id
            THEN [reply |-> Answer(node_id), state |-> s, spawn |-> TRUE]
            ELSE [reply |-> NoMessage, state |-> s, spawn |-> FALSE]
      [] msg.kind = "Coordinator" ->
            [reply |-> NoMessage,
             state |-> IF msg.id >= node_id THEN set_leader(s, msg.id) ELSE s,
             spawn |-> FALSE]
      [] msg.kind = "Heartbeat" ->
            [reply |-> HeartbeatAck(node_id), state |-> s, spawn |-> FALSE]
      [] OTHER ->
            [reply |-> NoMessage, state |-> s, spawn |-> FALSE]

\* handle_message acknowledging a Heartbeat only as the leader.
handle_message_leader_ack(node_id, s, msg) ==
    CASE msg.kind = "Election" ->
            IF node_id > msg.id
            THEN [reply |-> Answer(node_id), state |-> s, spawn |-> TRUE]
            ELSE [reply |-> NoMessage, state |-> s, spawn |-> FALSE]
      [] msg.kind = "Coordinator" ->
            [reply |-> NoMessage, state |-> set_leader(s, msg.id), spawn |-> FALSE]
      [] msg.kind = "Heartbeat" ->
            [reply |-> IF s.current_leader = node_id THEN HeartbeatAck(node_id) ELSE NoMessage,
             state |-> s, spawn |-> FALSE]
      [] OTHER ->
            [reply |-> NoMessage, state |-> s, spawn |-> FALSE]

\* handle_message that answers an Election without the tokio::spawn of
\* bully.rs:223-229.
handle_message_no_spawn(node_id, s, msg) ==
    CASE msg.kind = "Election" ->
            IF node_id > msg.id
            THEN [reply |-> Answer(node_id), state |-> s, spawn |-> FALSE]
            ELSE [reply |-> NoMessage, state |-> s, spawn |-> FALSE]
      [] msg.kind = "Coordinator" ->
            [reply |-> NoMessage, state |-> set_leader(s, msg.id), spawn |-> FALSE]
      [] msg.kind = "Heartbeat" ->
            [reply |-> HeartbeatAck(node_id), state |-> s, spawn |-> FALSE]
      [] OTHER ->
            [reply |-> NoMessage, state |-> s, spawn |-> FALSE]

\* handle_message on node node_id in state s: the reply, the state after it and
\* whether it spawned a task that calls start_election.
handle_message(node_id, s, msg) ==
    CASE msg.kind = "Election" ->
            IF node_id > msg.id
            THEN [reply |-> Answer(node_id), state |-> s, spawn |-> TRUE]
            ELSE [reply |-> NoMessage, state |-> s, spawn |-> FALSE]
      [] msg.kind = "Coordinator" ->
            [reply |-> NoMessage, state |-> set_leader(s, msg.id), spawn |-> FALSE]
      [] msg.kind = "Heartbeat" ->
            [reply |-> HeartbeatAck(node_id), state |-> s, spawn |-> FALSE]
      [] OTHER ->
            [reply |-> NoMessage, state |-> s, spawn |-> FALSE]

\* ---- the network as the senders see it ----
\* The listener is bound (server.rs:45): a connect succeeds.
Listening(p) == p \in Nodes /\ main[p] \in {"elect", "settle", "serve"}
\* The accept loop running from the bind on.
Accepting_on_bind(p) == p \in Nodes /\ main[p] \in {"elect", "settle", "serve"}

\* The accept loop runs (server.rs:73): a written message is handled.
Accepting(p) == p \in Nodes /\ main[p] = "serve"

\* Err("Timeout or error") of send_message, Ok(false) of send_heartbeat
Err == [kind |-> "Err", id |-> None]

\* What send_message(address of p, message) returns: Err, Ok(None) as NoMessage,
\* Ok(Some(r)) as r.  Only an Election waits for a response; the read of a
\* stream the handler closed without writing returns 0 bytes.
send_message(p, message) ==
    IF ~Listening(p) THEN Err
    ELSE IF message.kind = "Election"
         THEN IF Accepting(p)
              THEN handle_message(p, ElectionState(p), message).reply
              ELSE Err
         ELSE NoMessage

\* send_heartbeat taking a connect that was tried for an acknowledgement.
send_heartbeat_any(p, node_id) == TRUE

\* What send_heartbeat(address of p) returns for the sender node_id.
send_heartbeat(p, node_id) ==
    IF Accepting(p)
    THEN handle_message(p, ElectionState(p), Heartbeat(node_id)).reply.kind = "HeartbeatAck"
    ELSE FALSE

\* The match of start_election on the result of one send (bully.rs:175-178).
is_answer(response) == response.kind = "Answer"

\* A connection carrying m reaches p and waits to be handled.  Beyond MaxCopies
\* waiting copies of one message a further copy is handled with the last one.
Deliver(ib, p, m) ==
    IF Listening(p) /\ m \in Pending /\ ib[p][m] < MaxCopies
    THEN [ib EXCEPT ![p][m] = @ + 1]
    ELSE ib

\* ---- one start_election call ----
IdleRound == [pc |-> "idle", todo |-> {}, answered |-> FALSE, polled |-> {}]
StartRound == [IdleRound EXCEPT !.pc = "start"]

SleepMonitor == [pc |-> "sleep", target |-> None]
OffMonitor == [pc |-> "off", target |-> None]

\* higher_nodes without the filter of bully.rs:156.
higher_nodes_all(n) == peers[n]

higher_nodes(n) == {id \in peers[n] : id > n}

FreeSpawn(n) == {s \in SpawnSlots : elec[n][s].pc = "idle"}
MinOf(S) == CHOOSE x \in S : \A y \in S : x <= y

\* tokio::spawn of bully.rs:223: the task sleeps 100ms and calls start_election.
Spawned(el, n) == [el EXCEPT ![n][MinOf(FreeSpawn(n))] = StartRound]

\* The caller of a start_election that returned goes on.
MainAfter(n, s, over) ==
    IF over /\ s = MainSlot THEN [main EXCEPT ![n] = "settle"] ELSE main
MonitorAfter(n, s, over) ==
    IF over /\ s = MonitorSlot THEN [monitor EXCEPT ![n] = SleepMonitor] ELSE monitor

SetState(n, s) ==
    /\ current_leader' = [current_leader EXCEPT ![n] = s.current_leader]
    /\ leader_alive' = [leader_alive EXCEPT ![n] = s.leader_alive]

\* Declare without the set_leader of bully.rs:162 and 185.
Declare_unset(n, s) ==
    LET over == peers[n] = {}
        r == IF over THEN IdleRound
             ELSE [elec[n][s] EXCEPT !.pc = "announce", !.todo = peers[n]]
    IN /\ SetState(n, ElectionState(n))
       /\ elec' = [elec EXCEPT ![n][s] = r]
       /\ main' = MainAfter(n, s, over)
       /\ monitor' = MonitorAfter(n, s, over)

\* The round in slot s of n declares n leader and turns to announce_coordinator,
\* whose snapshot of the registry is taken here (the registry never changes
\* once start has been called).
Declare(n, s) ==
    LET over == peers[n] = {}
        r == IF over THEN IdleRound
             ELSE [elec[n][s] EXCEPT !.pc = "announce", !.todo = peers[n]]
    IN /\ SetState(n, set_leader(ElectionState(n), n))
       /\ elec' = [elec EXCEPT ![n][s] = r]
       /\ main' = MainAfter(n, s, over)
       /\ monitor' = MonitorAfter(n, s, over)

\* ServerNode::start up to the call of start_election (server.rs:45-53).
bind(n) ==
    /\ main[n] = "new"
    /\ main' = [main EXCEPT ![n] = "elect"]
    /\ elec' = [elec EXCEPT ![n][MainSlot] = StartRound]
    /\ UNCHANGED <<peers, current_leader, leader_alive, load_balancer, monitor,
                   inbox, crashes, foreign, call, request,
                   balancer_vars, lock_vars>>

\* start_election up to its first send (bully.rs:150-168).
start_election(n, s) ==
    /\ elec[n][s].pc = "start"
    /\ IF higher_nodes(n) = {}
       THEN Declare(n, s)
       ELSE /\ elec' = [elec EXCEPT ![n][s] =
                          [pc |-> "poll", todo |-> higher_nodes(n),
                           answered |-> FALSE, polled |-> {}]]
            /\ UNCHANGED <<current_leader, leader_alive, main, monitor>>
    /\ UNCHANGED <<peers, load_balancer, inbox, crashes, foreign, call, request,
                   balancer_vars, lock_vars>>

\* One turn of the loop of bully.rs:170-180: the Election to the higher peer p
\* and its result.  A peer that accepts handles it before the sender's timeout;
\* a peer that only listens handles it later, after the sender gave up.
send_election(n, s, p) ==
    LET message == Election(n)
        response == send_message(p, message)
        handled == Accepting(p)
        h == handle_message(p, ElectionState(p), message)
        r == [elec[n][s] EXCEPT !.todo = @ \ {p},
                                !.polled = @ \cup {p},
                                !.answered = @ \/ is_answer(response)]
    IN /\ elec[n][s].pc = "poll"
       /\ p \in elec[n][s].todo
       /\ handled /\ h.spawn => FreeSpawn(p) # {}
       /\ elec' = [(IF handled /\ h.spawn THEN Spawned(elec, p) ELSE elec)
                      EXCEPT ![n][s] = r]
       /\ inbox' = IF handled THEN inbox ELSE Deliver(inbox, p, message)
       /\ UNCHANGED <<peers, current_leader, leader_alive, load_balancer, main,
                      monitor, crashes, foreign, call, request,
                   balancer_vars, lock_vars>>

\* The end of start_election declaring the node whatever was received.
decide_always(n, s) ==
    /\ elec[n][s].pc = "poll"
    /\ elec[n][s].todo = {}
    /\ Declare(n, s)
    /\ UNCHANGED <<peers, load_balancer, inbox, crashes, foreign, call, request,
                   balancer_vars, lock_vars>>

\* The end of start_election (bully.rs:182-193).
decide(n, s) ==
    /\ elec[n][s].pc = "poll"
    /\ elec[n][s].todo = {}
    /\ IF ~elec[n][s].answered
       THEN Declare(n, s)
       ELSE /\ elec' = [elec EXCEPT ![n][s] = IdleRound]
            /\ main' = MainAfter(n, s, TRUE)
            /\ monitor' = MonitorAfter(n, s, TRUE)
            /\ UNCHANGED <<current_leader, leader_alive>>
    /\ UNCHANGED <<peers, load_balancer, inbox, crashes, foreign, call, request,
                   balancer_vars, lock_vars>>

\* announce_coordinator returning at the first send that fails.
announce_coordinator_stop(n, s, p) ==
    LET todo == IF Listening(p) THEN elec[n][s].todo \ {p} ELSE {}
        over == todo = {}
    IN /\ elec[n][s].pc = "announce"
       /\ p \in elec[n][s].todo
       /\ inbox' = Deliver(inbox, p, Coordinator(n))
       /\ elec' = [elec EXCEPT ![n][s] =
                     IF over THEN IdleRound ELSE [@ EXCEPT !.todo = todo]]
       /\ main' = MainAfter(n, s, over)
       /\ monitor' = MonitorAfter(n, s, over)
       /\ UNCHANGED <<peers, current_leader, leader_alive, load_balancer,
                      crashes, foreign, call, request, balancer_vars, lock_vars>>

\* One turn of the loop of announce_coordinator (bully.rs:200-209).
announce_coordinator(n, s, p) ==
    LET todo == elec[n][s].todo \ {p}
        over == todo = {}
    IN /\ elec[n][s].pc = "announce"
       /\ p \in elec[n][s].todo
       /\ inbox' = Deliver(inbox, p, Coordinator(n))
       /\ elec' = [elec EXCEPT ![n][s] =
                     IF over THEN IdleRound ELSE [@ EXCEPT !.todo = todo]]
       /\ main' = MainAfter(n, s, over)
       /\ monitor' = MonitorAfter(n, s, over)
       /\ UNCHANGED <<peers, current_leader, leader_alive, load_balancer,
                      crashes, foreign, call, request,
                   balancer_vars, lock_vars>>

\* ServerNode::start from the monitor to the accept loop (server.rs:56-73).
serve(n) ==
    /\ main[n] = "settle"
    /\ main' = [main EXCEPT ![n] = "serve"]
    /\ monitor' = [monitor EXCEPT ![n] = SleepMonitor]
    /\ load_balancer' = [load_balancer EXCEPT ![n] = (current_leader[n] = n)]
    /\ UNCHANGED <<peers, current_leader, leader_alive, elec, inbox, crashes, foreign, call, request,
                   balancer_vars, lock_vars>>

\* handle_connection of one waiting connection (server.rs:98-113).  The reply
\* is written to a stream whose other end is gone.
handle_connection(n, m) ==
    LET h == handle_message(n, ElectionState(n), m)
    IN /\ Accepting(n)
       /\ inbox[n][m] > 0
       /\ h.spawn => FreeSpawn(n) # {}
       /\ inbox' = [inbox EXCEPT ![n][m] = @ - 1]
       /\ SetState(n, h.state)
       /\ elec' = IF h.spawn THEN Spawned(elec, n) ELSE elec
       /\ UNCHANGED <<peers, load_balancer, main, monitor, crashes, foreign, call, request,
                   balancer_vars, lock_vars>>

\* ---- the heartbeat monitor (bully.rs:69-93) ----
\* A turn of the monitor that leaves out the comparison of bully.rs:81.
monitor_tick_self(n) ==
    LET leader_id == current_leader[n]
    IN /\ monitor[n].pc = "sleep"
       /\ IF leader_id = None
          THEN UNCHANGED <<monitor, elec>>
          ELSE IF leader_id \in peers[n]
          THEN /\ monitor' = [monitor EXCEPT ![n] = [pc |-> "probe", target |-> leader_id]]
               /\ UNCHANGED elec
          ELSE /\ monitor' = [monitor EXCEPT ![n] = [pc |-> "elect", target |-> None]]
               /\ elec' = [elec EXCEPT ![n][MonitorSlot] = StartRound]
       /\ UNCHANGED <<peers, current_leader, leader_alive, load_balancer, main,
                      inbox, crashes, foreign, call, request,
                   balancer_vars, lock_vars>>

\* A turn of the monitor that calls start_election when it finds no leader.
monitor_tick_retry(n) ==
    LET leader_id == current_leader[n]
    IN /\ monitor[n].pc = "sleep"
       /\ IF leader_id = n
          THEN UNCHANGED <<monitor, elec>>
          ELSE IF leader_id \in peers[n]
          THEN /\ monitor' = [monitor EXCEPT ![n] = [pc |-> "probe", target |-> leader_id]]
               /\ UNCHANGED elec
          ELSE /\ monitor' = [monitor EXCEPT ![n] = [pc |-> "elect", target |-> None]]
               /\ elec' = [elec EXCEPT ![n][MonitorSlot] = StartRound]
       /\ UNCHANGED <<peers, current_leader, leader_alive, load_balancer, main,
                      inbox, crashes, foreign, call, request, balancer_vars, lock_vars>>

\* One turn of the loop up to the heartbeat: sleep(5s) returns, the monitor reads
\* current_leader and, for another node's id, enters check_leader_alive
\* (bully.rs:72-82, 96-99).  Without an entry for the leader in the registry
\* check_leader_alive returns false at once (bully.rs:111-113) and the monitor
\* calls start_election.  With no leader, or as the leader, the turn is over
\* and the step changes nothing.
monitor_tick(n) ==
    LET leader_id == current_leader[n]
    IN /\ monitor[n].pc = "sleep"
       /\ IF leader_id = None \/ leader_id = n
          THEN UNCHANGED <<monitor, elec>>
          ELSE IF leader_id \in peers[n]
          THEN /\ monitor' = [monitor EXCEPT ![n] = [pc |-> "probe", target |-> leader_id]]
               /\ UNCHANGED elec
          ELSE /\ monitor' = [monitor EXCEPT ![n] = [pc |-> "elect", target |-> None]]
               /\ elec' = [elec EXCEPT ![n][MonitorSlot] = StartRound]
       /\ UNCHANGED <<peers, current_leader, leader_alive, load_balancer, main,
                      inbox, crashes, foreign, call, request,
                   balancer_vars, lock_vars>>

\* send_heartbeat returns to check_leader_alive, which records the result, and
\* the monitor calls start_election on false (bully.rs:99-110, 84-88).
check_leader_alive(n) ==
    LET is_alive == send_heartbeat(monitor[n].target, n)
    IN /\ monitor[n].pc = "probe"
       /\ leader_alive' = [leader_alive EXCEPT ![n] = is_alive]
       /\ IF is_alive
          THEN /\ monitor' = [monitor EXCEPT ![n] = SleepMonitor]
               /\ UNCHANGED elec
          ELSE /\ monitor' = [monitor EXCEPT ![n] = [pc |-> "elect", target |-> None]]
               /\ elec' = [elec EXCEPT ![n][MonitorSlot] = StartRound]
       /\ UNCHANGED <<peers, current_leader, load_balancer, main, inbox,
                      crashes, foreign, call, request,
                   balancer_vars, lock_vars>>

\* ---- the environment ----
\* The process of node n stops: its tasks end, its listener and the connections
\* waiting at it are gone.
crash(n) ==
    /\ crashes < MaxCrashes
    /\ main[n] \in {"elect", "settle", "serve"}
    /\ crashes' = crashes + 1
    /\ main' = [main EXCEPT ![n] = "down"]
    /\ monitor' = [monitor EXCEPT ![n] = OffMonitor]
    /\ elec' = [elec EXCEPT ![n] = [s \in Slots |-> IdleRound]]
    /\ inbox' = [inbox EXCEPT ![n] = [m \in Pending |-> 0]]
    /\ UNCHANGED <<peers, current_leader, leader_alive, load_balancer, foreign, call, request,
                   balancer_vars, lock_vars>>

\* A process with an id of its own, registered nowhere, announces itself to p
\* as start_election and announce_coordinator make it do.
foreign_coordinator(p) ==
    /\ foreign < MaxForeign
    /\ Listening(p)
    /\ foreign' = foreign + 1
    /\ inbox' = Deliver(inbox, p, Coordinator(ForeignId))
    /\ UNCHANGED <<peers, current_leader, leader_alive, load_balancer, main,
                   monitor, elec, crashes, call, request,
                   balancer_vars, lock_vars>>

\* ---- client requests (server.rs:132-222) ----
\* ServerResponse: the data of EncryptedImageData is left out, the message of
\* Error is the text of the format string with the id it is filled with.
EncryptedImageData == [kind |-> "EncryptedImageData", message |-> <<>>]
Error(assigned_node_id) ==
    [kind |-> "Error", message |-> <<"Request assigned to Node", assigned_node_id>>]
NoResponse == [kind |-> "None", message |-> <<>>]

\* The registry as get_alive_nodes reads it: every registered peer.
get_all_peers(n) == peers[n]

\* alive left in the order of the pushes.
sort_none(s) == s

\* alive.sort() on a Vec<u32>: ascending.
RECURSIVE sort(_)
sort(s) ==
    IF Len(s) <= 1 THEN s
    ELSE LET m == CHOOSE i \in 1..Len(s) : \A j \in 1..Len(s) : s[i] <= s[j]
         IN <<s[m]>> \o sort(SubSeq(s, 1, m - 1) \o SubSeq(s, m + 1, Len(s)))

\* The vector get_alive_nodes starts from, left empty.
first_alive_none(id) == <<>>

\* The vector get_alive_nodes starts from: alive.push(self.id).
first_alive(id) == <<id>>

\* handle_client_request processing whatever the assignment is.
route_always(id, request_hash, alive_nodes) ==
    [assigned |-> IF alive_nodes = <<>> THEN None
                  ELSE alive_nodes[(request_hash % Len(alive_nodes)) + 1],
     encrypted |-> TRUE,
     reply |-> EncryptedImageData]

\* handle_client_request after get_alive_nodes has returned: the assigned node,
\* whether encrypt_data was called, the response.
route(id, request_hash, alive_nodes) ==
    IF alive_nodes = <<>>
    THEN [assigned |-> None, encrypted |-> TRUE, reply |-> EncryptedImageData]
    ELSE LET assigned_index == request_hash % Len(alive_nodes)
             assigned_node_id == alive_nodes[assigned_index + 1]
         IN IF assigned_node_id # id
            THEN [assigned |-> assigned_node_id, encrypted |-> FALSE,
                  reply |-> Error(assigned_node_id)]
            ELSE [assigned |-> assigned_node_id, encrypted |-> TRUE,
                  reply |-> EncryptedImageData]

NoRequest ==
    [pc |-> "idle", hash |-> 0, todo |-> {}, ok |-> {}, alive |-> <<>>,
     assigned |-> None, encrypted |-> FALSE, reply |-> NoResponse]

\* get_alive_nodes has probed every peer: sort, then the rest of
\* handle_client_request.
Routed(n, r) ==
    LET alive_nodes == sort(r.alive)
        d == route(n, r.hash, alive_nodes)
    IN [r EXCEPT !.pc = "done", !.alive = alive_nodes, !.assigned = d.assigned,
                 !.encrypted = d.encrypted, !.reply = d.reply]

\* handle_connection reads the UploadImage whose hash is request[n].hash, and
\* handle_client_request runs up to the first probe of get_alive_nodes.
handle_client_request(n) ==
    LET todo == get_all_peers(n) \ {n}
        r == [request[n] EXCEPT !.pc = "probe", !.todo = todo,
                                !.alive = first_alive(n)]
    IN /\ Accepting(n)
       /\ request[n].pc = "idle"
       /\ request' = [request EXCEPT ![n] = IF todo = {} THEN Routed(n, r) ELSE r]
       /\ UNCHANGED <<peers, current_leader, leader_alive, load_balancer, main,
                      monitor, elec, inbox, crashes, foreign, call, balancer_vars, lock_vars>>

\* One turn of the loop of get_alive_nodes: the connect to peer p, which a
\* bound listener accepts within the 100 ms.
probe(n, p) ==
    LET connected == Listening(p)
        r == [request[n] EXCEPT
                 !.todo = @ \ {p},
                 !.ok = IF connected THEN @ \cup {p} ELSE @,
                 !.alive = IF connected THEN Append(@, p) ELSE @]
    IN /\ request[n].pc = "probe"
       /\ main[n] # "down"
       /\ p \in request[n].todo
       /\ request' = [request EXCEPT ![n] = IF r.todo = {} THEN Routed(n, r) ELSE r]
       /\ UNCHANGED <<peers, current_leader, leader_alive, load_balancer, main,
                      monitor, elec, inbox, crashes, foreign, call, balancer_vars, lock_vars>>

\* LoadBalancer::new (loadbalancer.rs:19-24), no method called yet.
NoLbCall == [op |-> "none", server_id |-> None, reply |-> None, seq |-> 0]
NewBalancer ==
    /\ servers = << >>
    /\ next_index = 0
    /\ values_order = << >>
    /\ lb_call = NoLbCall
    /\ history = [registered |-> << >>, returned |-> << >>]

\* ---- LoadBalancer (loadbalancer.rs) ----
\* The ids the caller registers, marks and updates.
ServerIds == {10, 11, 12}
Loads == 0..MaxLoad

\* s with the entries equal to x taken out, the others in place.
without(s, x) == SelectSeq(s, LAMBDA y : y # x)

\* s with x put in after its first i entries.
insert_at(s, i, x) == SubSeq(s, 1, i) \o <<x>> \o SubSeq(s, i + 1, Len(s))

\* servers.values().filter(|s| s.available).collect(): the available ids in
\* the order the map yields them.
available_servers == SelectSeq(values_order, LAMBDA id : servers[id].available)

\* servers.values().collect(): no filter.
all_servers == values_order

\* Iterator::min_by_key(|s| s.current_load): the first of the least loaded
\* entries of s, None for no entry.
min_by_key(s) ==
    IF s = <<>> THEN None
    ELSE LET i == CHOOSE i \in 1..Len(s) :
                      /\ \A j \in 1..Len(s) :
                            servers[s[i]].current_load <= servers[s[j]].current_load
                      /\ \A j \in 1..(i - 1) :
                            servers[s[j]].current_load > servers[s[i]].current_load
         IN s[i]

\* The returned ids the caller has seen since the registrations and the
\* availabilities last changed, the last two rounds of them, kept while every
\* registered server is available.
Seen(id) ==
    LET k == Cardinality(DOMAIN servers)
        all == Append(history.returned, id)
    IN IF id = None \/ \E x \in DOMAIN servers : ~servers[x].available THEN << >>
       ELSE IF Len(all) > 2 * k THEN Tail(all) ELSE all

LbCall(op, server_id, reply, write) ==
    [op |-> op, server_id |-> server_id, reply |-> reply,
     seq |-> IF write THEN lb_call.seq + 1 ELSE lb_call.seq]

\* register_server: insert replaces the entry of a registered id where it is;
\* the entry of a new id lands anywhere among the others (the order of a
\* HashMap is unspecified), which stay in their relative order.
register_server(server_id) ==
    /\ lb_call.seq < MaxOps
    /\ servers' = [id \in DOMAIN servers \cup {server_id} |->
                     IF id = server_id THEN [current_load |-> 0, available |-> TRUE]
                     ELSE servers[id]]
    /\ IF server_id \in DOMAIN servers
       THEN /\ values_order' = values_order
            /\ history' = [history EXCEPT !.returned = << >>]
       ELSE /\ \E i \in 0..Len(values_order) :
                   values_order' = insert_at(values_order, i, server_id)
            /\ history' = [registered |-> Append(history.registered, server_id),
                           returned |-> << >>]
    /\ lb_call' = LbCall("register_server", server_id, None, TRUE)
    /\ UNCHANGED <<next_index, node_vars, lock_vars>>

unregister_server(server_id) ==
    /\ lb_call.seq < MaxOps
    /\ servers' = [id \in DOMAIN servers \ {server_id} |-> servers[id]]
    /\ values_order' = without(values_order, server_id)
    /\ history' = IF server_id \in DOMAIN servers
                  THEN [registered |-> without(history.registered, server_id),
                        returned |-> << >>]
                  ELSE history
    /\ lb_call' = LbCall("unregister_server", server_id, None, TRUE)
    /\ UNCHANGED <<next_index, node_vars, lock_vars>>

\* get_next_server with the cursor advanced and not wrapped.
get_next_server_nowrap ==
    LET n == Len(available_servers)
        server == IF n = 0 THEN None ELSE available_servers[(next_index % n) + 1]
    IN /\ next_index' = IF n = 0 THEN next_index ELSE next_index + 1
       /\ lb_call' = LbCall("get_next_server", None, server, FALSE)
       /\ history' = [history EXCEPT !.returned = Seen(server)]
       /\ UNCHANGED <<servers, values_order, node_vars, lock_vars>>

get_next_server ==
    LET n == Len(available_servers)
        server == IF n = 0 THEN None ELSE available_servers[(next_index % n) + 1]
    IN /\ next_index' = IF n = 0 THEN next_index ELSE (next_index + 1) % n
       /\ lb_call' = LbCall("get_next_server", None, server, FALSE)
       /\ history' = [history EXCEPT !.returned = Seen(server)]
       /\ UNCHANGED <<servers, values_order, node_vars, lock_vars>>

\* get_least_loaded_server without the filter on available.
get_least_loaded_server_any ==
    /\ lb_call' = LbCall("get_least_loaded_server", None, min_by_key(all_servers), FALSE)
    /\ UNCHANGED <<servers, next_index, values_order, history, node_vars, lock_vars>>

get_least_loaded_server ==
    /\ lb_call' = LbCall("get_least_loaded_server", None,
                         min_by_key(available_servers), FALSE)
    /\ UNCHANGED <<servers, next_index, values_order, history, node_vars, lock_vars>>

\* update_server_load with servers.entry(server_id).or_insert in the place of
\* get_mut.
update_server_load_insert(server_id, load) ==
    /\ lb_call.seq < MaxOps
    /\ servers' = [id \in DOMAIN servers \cup {server_id} |->
                     IF id = server_id
                     THEN [current_load |-> load,
                           available |-> IF id \in DOMAIN servers
                                         THEN servers[id].available ELSE TRUE]
                     ELSE servers[id]]
    /\ values_order' = IF server_id \in DOMAIN servers THEN values_order
                       ELSE Append(values_order, server_id)
    /\ lb_call' = LbCall("update_server_load", server_id, None, TRUE)
    /\ UNCHANGED <<next_index, history, node_vars, lock_vars>>

update_server_load(server_id, load) ==
    /\ lb_call.seq < MaxOps
    /\ servers' = IF server_id \in DOMAIN servers
                  THEN [servers EXCEPT ![server_id].current_load = load]
                  ELSE servers
    /\ lb_call' = LbCall("update_server_load", server_id, None, TRUE)
    /\ UNCHANGED <<next_index, values_order, history, node_vars, lock_vars>>

\* mark_server_unavailable and mark_server_available: available := a.
mark(op, server_id, a) ==
    /\ lb_call.seq < MaxOps
    /\ servers' = IF server_id \in DOMAIN servers
                  THEN [servers EXCEPT ![server_id].available = a]
                  ELSE servers
    /\ history' = IF server_id \in DOMAIN servers
                  THEN [history EXCEPT !.returned = << >>]
                  ELSE history
    /\ lb_call' = LbCall(op, server_id, None, TRUE)
    /\ UNCHANGED <<next_index, values_order, node_vars, lock_vars>>

mark_server_unavailable(server_id) == mark("mark_server_unavailable", server_id, FALSE)

mark_server_available(server_id) == mark("mark_server_available", server_id, TRUE)

\* ---- the three RwLocks of one BullyElection (bully.rs:27-29) ----
Locks == {"peers", "current_leader", "leader_alive"}
LockTasks == 1..MaxTasks
Methods ==
    {"set_leader", "get_leader", "add_peer", "check_leader_alive",
     "start_election", "announce_coordinator"}

\* What a method does to the locks, in order: lock.read().await,
\* lock.write().await, the drop of a guard, the await of a network call.
Read(l) == [op |-> "acquire", lock |-> l, mode |-> "read"]
Write(l) == [op |-> "acquire", lock |-> l, mode |-> "write"]
Drop(l) == [op |-> "release", lock |-> l, mode |-> "none"]
Network == [op |-> "network", lock |-> "none", mode |-> "none"]

\* set_leader: the guard of current_leader lives to the end of the function,
\* the one of leader_alive, declared last, is dropped first.
set_leader_locks ==
    <<Write("current_leader"), Write("leader_alive"), Drop("leader_alive"),
      Drop("current_leader")>>
get_leader_locks == <<Read("current_leader"), Drop("current_leader")>>
add_peer_locks == <<Write("peers"), Drop("peers")>>

\* check_leader_alive reading current_leader again before it stores the result.
check_leader_alive_locks_recheck ==
    <<Read("peers"), Network, Write("leader_alive"), Read("current_leader"),
      Drop("current_leader"), Drop("leader_alive"), Drop("peers")>>

\* check_leader_alive with an entry for the leader: the guard of peers lives
\* across send_heartbeat and the write of leader_alive.
check_leader_alive_locks ==
    <<Read("peers"), Network, Write("leader_alive"), Drop("leader_alive"),
      Drop("peers")>>

\* announce_coordinator: the guard is a temporary of the clone statement; the
\* sends follow.  A start_election that got an Answer does the same to the
\* locks.
announce_coordinator_locks == <<Read("peers"), Drop("peers"), Network>>

\* start_election declaring the node: the clone, the sends, set_leader,
\* announce_coordinator.
start_election_locks ==
    <<Read("peers"), Drop("peers"), Network>> \o set_leader_locks
        \o announce_coordinator_locks

Program(method) ==
    CASE method = "set_leader" -> set_leader_locks
      [] method = "get_leader" -> get_leader_locks
      [] method = "add_peer" -> add_peer_locks
      [] method = "check_leader_alive" -> check_leader_alive_locks
      [] method = "start_election" -> start_election_locks
      [] method = "announce_coordinator" -> announce_coordinator_locks
      [] OTHER -> << >>

IdleTask == [method |-> "none", pc |-> 0]
NoLocks ==
    /\ task = [t \in LockTasks |-> IdleTask]
    /\ holders = [l \in Locks |-> {}]
    /\ waiters = [l \in Locks |-> << >>]

\* The operation task t is at.
Op(t) ==
    IF task[t].method = "none" THEN [op |-> "none", lock |-> "none", mode |-> "none"]
    ELSE Program(task[t].method)[task[t].pc]

Waiting(t, l) == \E i \in 1..Len(waiters[l]) : waiters[l][i][1] = t
Holding(t, l) == \E h \in holders[l] : h[1] = t

\* Task t is past the operation it is at; past the last one the method returns.
Advance(t) ==
    IF task[t].pc = Len(Program(task[t].method)) THEN [task EXCEPT ![t] = IdleTask]
    ELSE [task EXCEPT ![t].pc = @ + 1]

\* A task calls a method of the BullyElection it shares with the others.
lock_call(t, method) ==
    /\ task[t].method = "none"
    /\ task' = [task EXCEPT ![t] = [method |-> method, pc |-> 1]]
    /\ UNCHANGED <<holders, waiters, node_vars, balancer_vars>>

\* lock.read() or lock.write() is polled: the task joins the queue of the
\* lock, which tokio serves first come first served.
lock_request(t) ==
    /\ Op(t).op = "acquire"
    /\ ~Waiting(t, Op(t).lock)
    /\ waiters' = [waiters EXCEPT ![Op(t).lock] = Append(@, <<t, Op(t).mode>>)]
    /\ UNCHANGED <<task, holders, node_vars, balancer_vars>>

\* The first task of the queue gets the lock: a writer when nobody holds it, a
\* reader when no writer holds it.
lock_grant(l) ==
    /\ waiters[l] # << >>
    /\ LET t == waiters[l][1][1]
           mode == waiters[l][1][2]
       IN /\ IF mode = "write" THEN holders[l] = {}
             ELSE \A h \in holders[l] : h[2] = "read"
          /\ holders' = [holders EXCEPT ![l] = @ \cup {<<t, mode>>}]
          /\ waiters' = [waiters EXCEPT ![l] = Tail(@)]
          /\ task' = Advance(t)
    /\ UNCHANGED <<node_vars, balancer_vars>>

\* A guard is dropped.
lock_release(t) ==
    /\ Op(t).op = "release"
    /\ holders' = [holders EXCEPT ![Op(t).lock] = {h \in @ : h[1] # t}]
    /\ task' = Advance(t)
    /\ UNCHANGED <<waiters, node_vars, balancer_vars>>

\* A network call returns, with a result or at its timeout.
lock_network(t) ==
    /\ Op(t).op = "network"
    /\ task' = Advance(t)
    /\ UNCHANGED <<holders, waiters, node_vars, balancer_vars>>

\* ---- the cluster ----
\* The state of one BullyElection as its caller can compare it.
ObjectState(n) ==
    [current_leader |-> current_leader[n], leader_alive |-> leader_alive[n],
     peers |-> peers[n]]

\* call before the first direct call: repeat says that a call has the method
\* and argument of the call before it, after is the state the call left.
NoCall ==
    [op |-> "none", node |-> 0, msg |-> NoMessage, leader_id |-> None,
     reply |-> NoMessage, spawn |-> FALSE, seq |-> 0, repeat |-> FALSE,
     after |-> [current_leader |-> None, leader_alive |-> TRUE, peers |-> {}]]

\* After ServerNode::new and the add_peer calls of main (server.rs:256-265).
Init ==
    /\ peers = [n \in Nodes |-> Nodes \ {n}]
    /\ current_leader = [n \in Nodes |-> None]
    /\ leader_alive = [n \in Nodes |-> TRUE]
    /\ load_balancer = [n \in Nodes |-> FALSE]
    /\ main = [n \in Nodes |-> "new"]
    /\ monitor = [n \in Nodes |-> OffMonitor]
    /\ elec = [n \in Nodes |-> [s \in Slots |-> IdleRound]]
    /\ inbox = [n \in Nodes |-> [m \in Pending |-> 0]]
    /\ crashes = 0
    /\ foreign = 0
    /\ call = NoCall
    /\ request = [n \in Nodes |-> NoRequest]
    /\ NewBalancer
    /\ NoLocks

\* Nothing is under way: no node is between bind and accept, no start_election
\* runs, no connection waits to be handled.
Settled ==
    /\ \A q \in Nodes : main[q] \in {"new", "serve", "down"}
    /\ \A q \in Nodes : \A s \in Slots : elec[q][s].pc = "idle"
    /\ \A q \in Nodes : \A m \in Pending : inbox[q][m] = 0

\* The steps of one start_election call, of the monitor, of the main task.
RoundStep(n, s) ==
    \/ start_election(n, s)
    \/ \E p \in Nodes : send_election(n, s, p)
    \/ decide(n, s)
    \/ \E p \in Nodes : announce_coordinator(n, s, p)

\* Startup and elections of the cluster, with at most MaxCrashes nodes lost.
\* The heartbeat interval is long against an election round: a monitor wakes
\* up when the cluster has settled.
Next ==
    \/ \E n \in Nodes : bind(n)
    \/ \E n \in Nodes : \E s \in Slots : RoundStep(n, s)
    \/ \E n \in Nodes : serve(n)
    \/ \E n \in Nodes : \E m \in Pending : handle_connection(n, m)
    \/ \E n \in Nodes : Settled /\ monitor_tick(n)
    \/ \E n \in Nodes : check_leader_alive(n)
    \/ \E n \in Nodes : crash(n)

Spec == Init /\ [][Next]_vars

\* ---- the running cluster ----
\* The cluster after a startup that ended in agreement on node NumNodes, every
\* node accepting: the monitors wake up at any time, a node may stop, the
\* foreign process may announce itself.
SteadyInit ==
    /\ peers = [n \in Nodes |-> Nodes \ {n}]
    /\ current_leader = [n \in Nodes |-> NumNodes]
    /\ leader_alive = [n \in Nodes |-> TRUE]
    /\ load_balancer = [n \in Nodes |-> n = NumNodes]
    /\ main = [n \in Nodes |-> "serve"]
    /\ monitor = [n \in Nodes |-> SleepMonitor]
    /\ elec = [n \in Nodes |-> [s \in Slots |-> IdleRound]]
    /\ inbox = [n \in Nodes |-> [m \in Pending |-> 0]]
    /\ crashes = 0
    /\ foreign = 0
    /\ call = NoCall
    /\ request = [n \in Nodes |-> NoRequest]
    /\ NewBalancer
    /\ NoLocks

SteadyNext ==
    \/ \E n \in Nodes : \E s \in Slots : RoundStep(n, s)
    \/ \E n \in Nodes : \E m \in Pending : handle_connection(n, m)
    \/ \E n \in Nodes : monitor_tick(n)
    \/ \E n \in Nodes : check_leader_alive(n)
    \/ \E n \in Nodes : crash(n)
    \/ \E n \in Nodes : foreign_coordinator(n)

SpecSteady == SteadyInit /\ [][SteadyNext]_vars

\* ---- the running cluster losing a node ----
FailoverNext ==
    \/ \E n \in Nodes : \E s \in Slots : RoundStep(n, s)
    \/ \E n \in Nodes : \E m \in Pending : handle_connection(n, m)
    \/ \E n \in Nodes : monitor_tick(n)
    \/ \E n \in Nodes : check_leader_alive(n)
    \/ \E n \in Nodes : crash(n)

\* tokio runs every task that is ready, and every network call returns within
\* its timeout: the handlers, the election rounds and the monitor of a node
\* each go on.  Nothing is assumed of crash.
FailoverFairness ==
    \A n \in Nodes :
        /\ WF_vars((\E s \in Slots : RoundStep(n, s)))
        /\ WF_vars((\E m \in Pending : handle_connection(n, m)))
        /\ WF_vars(monitor_tick(n))
        /\ WF_vars(check_leader_alive(n))

SpecFailover == SteadyInit /\ [][FailoverNext]_vars /\ FailoverFairness

\* ---- one BullyElection called directly ----
\* handle_message(msg) called on node n (bully.rs:213-257), with the task it
\* spawns for a lower id's Election.
call_handle_message(n, msg) ==
    LET h == handle_message(n, ElectionState(n), msg)
    IN /\ call.node = n
       /\ call.seq < MaxCalls
       /\ h.spawn => FreeSpawn(n) # {}
       /\ SetState(n, h.state)
       /\ elec' = IF h.spawn THEN Spawned(elec, n) ELSE elec
       /\ call' = [op |-> "handle_message", node |-> n, msg |-> msg,
                   leader_id |-> None, reply |-> h.reply, spawn |-> h.spawn,
                   seq |-> call.seq + 1,
                   repeat |-> call.op = "handle_message" /\ call.msg = msg,
                   after |-> [current_leader |-> h.state.current_leader,
                              leader_alive |-> h.state.leader_alive,
                              peers |-> peers[n]]]
       /\ UNCHANGED <<peers, load_balancer, main, monitor, inbox, crashes, foreign,
                      request, balancer_vars, lock_vars>>

\* set_leader(leader_id) called on node n (bully.rs:52-58).
call_set_leader(n, leader_id) ==
    LET after == set_leader(ElectionState(n), leader_id)
    IN /\ call.node = n
       /\ call.seq < MaxCalls
       /\ SetState(n, after)
       /\ call' = [op |-> "set_leader", node |-> n, msg |-> NoMessage,
                   leader_id |-> leader_id, reply |-> NoMessage, spawn |-> FALSE,
                   seq |-> call.seq + 1,
                   repeat |-> call.op = "set_leader" /\ call.leader_id = leader_id,
                   after |-> [current_leader |-> after.current_leader,
                              leader_alive |-> after.leader_alive,
                              peers |-> peers[n]]]
       /\ UNCHANGED <<peers, load_balancer, main, monitor, elec, inbox, crashes, foreign,
                      request, balancer_vars, lock_vars>>

\* One node u in any election state and with any registry over the cluster's
\* ids (add_peer, bully.rs:43-46); no server runs, the peers do not listen.
HandlerInit ==
    \E u \in Nodes : \E l \in Ids \cup {None} : \E a \in BOOLEAN :
      \E registry \in SUBSET (Nodes \ {u}) :
        /\ peers = [n \in Nodes |-> IF n = u THEN registry ELSE {}]
        /\ current_leader = [n \in Nodes |-> IF n = u THEN l ELSE None]
        /\ leader_alive = [n \in Nodes |-> IF n = u THEN a ELSE TRUE]
        /\ load_balancer = [n \in Nodes |-> FALSE]
        /\ main = [n \in Nodes |-> "new"]
        /\ monitor = [n \in Nodes |-> OffMonitor]
        /\ elec = [n \in Nodes |-> [s \in Slots |-> IdleRound]]
        /\ inbox = [n \in Nodes |-> [m \in Pending |-> 0]]
        /\ crashes = 0
        /\ foreign = 0
        /\ call = [NoCall EXCEPT !.node = u]
        /\ request = [n \in Nodes |-> NoRequest]
        /\ NewBalancer
        /\ NoLocks

HandlerNext ==
    \/ \E n \in Nodes : \E msg \in BullyMessage : call_handle_message(n, msg)
    \/ \E n \in Nodes : \E leader_id \in Ids : call_set_leader(n, leader_id)
    \/ \E n \in Nodes : \E s \in SpawnSlots : RoundStep(n, s)

SpecHandler == HandlerInit /\ [][HandlerNext]_vars

\* tokio runs the task spawned at bully.rs:223: its sleep of 100 ms ends and
\* every send of its round returns within the timeout.
HandlerFairness ==
    \A n \in Nodes : \A s \in SpawnSlots : WF_vars(RoundStep(n, s))

SpecHandlerFair == HandlerInit /\ [][HandlerNext]_vars /\ HandlerFairness

\* ---- the running cluster handling one broadcast client request ----
\* The client has written the same UploadImage to every node (client.rs:23-65):
\* every node computes the same hash of (username, filename).
RequestInit ==
    \E h \in 0..MaxHash :
        /\ peers = [n \in Nodes |-> Nodes \ {n}]
        /\ current_leader = [n \in Nodes |-> NumNodes]
        /\ leader_alive = [n \in Nodes |-> TRUE]
        /\ load_balancer = [n \in Nodes |-> n = NumNodes]
        /\ main = [n \in Nodes |-> "serve"]
        /\ monitor = [n \in Nodes |-> SleepMonitor]
        /\ elec = [n \in Nodes |-> [s \in Slots |-> IdleRound]]
        /\ inbox = [n \in Nodes |-> [m \in Pending |-> 0]]
        /\ crashes = 0
        /\ foreign = 0
        /\ call = NoCall
        /\ request = [n \in Nodes |-> [NoRequest EXCEPT !.hash = h]]
        /\ NewBalancer
        /\ NoLocks

RequestNext ==
    \/ \E n \in Nodes : handle_client_request(n)
    \/ \E n \in Nodes : \E p \in Nodes : probe(n, p)
    \/ \E n \in Nodes : crash(n)

SpecRequest == RequestInit /\ [][RequestNext]_vars

\* ---- one LoadBalancer and a caller of its methods ----
BalancerNext ==
    \/ \E id \in ServerIds : register_server(id)
    \/ \E id \in ServerIds : unregister_server(id)
    \/ get_next_server
    \/ get_least_loaded_server
    \/ \E id \in ServerIds : \E load \in Loads : update_server_load(id, load)
    \/ \E id \in ServerIds : mark_server_unavailable(id)
    \/ \E id \in ServerIds : mark_server_available(id)

SpecBalancer == Init /\ [][BalancerNext]_vars

\* ---- the tasks of one node at the locks of its BullyElection ----
LocksNext ==
    \/ \E t \in LockTasks : \E method \in Methods : lock_call(t, method)
    \/ \E t \in LockTasks : lock_request(t)
    \/ \E l \in Locks : lock_grant(l)
    \/ \E t \in LockTasks : lock_release(t)
    \/ \E t \in LockTasks : lock_network(t)

\* tokio polls every task that can go on, every network call returns within
\* its timeout, a free lock goes to the head of its queue.  No task has to
\* call a method.
LocksFairness ==
    /\ \A t \in LockTasks :
          WF_vars(lock_request(t) \/ lock_release(t) \/ lock_network(t))
    /\ \A l \in Locks : WF_vars(lock_grant(l))

SpecLocks == Init /\ [][LocksNext]_vars /\ LocksFairness

\* ---- C1 ----
AllServing == \A n \in Nodes : main[n] = "serve"
Agreed(id) == \A n \in Nodes : current_leader[n] = id

\* C1: with the three nodes started, connected and none of them lost, the
\* cluster comes to every node having the highest id as current_leader and
\* stays there.  Once the cluster has settled only heartbeats follow, so the
\* agreement has to be there by then.
C1_SettledAgreement ==
    (crashes = 0 /\ AllServing /\ Settled) => Agreed(NumNodes)

\* From a settled cluster without a loss no step changes a current_leader.
C1_SettledForGood ==
    [][(crashes = 0 /\ crashes' = 0 /\ AllServing /\ Settled)
          => (current_leader' = current_leader /\ Settled')]_vars

\* ---- C2 ----
\* C2: in the running cluster that agreed on node 3, once node 3 has stopped
\* for good, nodes 1 and 2 eventually both have node 2, the highest id left,
\* as current_leader.
C2_Failover ==
    (main[NumNodes] = "down")
        ~> \/ current_leader[1] = NumNodes - 1 /\ current_leader[2] = NumNodes - 1
           \/ main[1] = "down"
           \/ main[2] = "down"

\* Node 3 is down and the two nodes left follow node 2.
C2_Witness ==
    /\ main[NumNodes] = "down"
    /\ current_leader[1] = NumNodes - 1
    /\ current_leader[2] = NumNodes - 1
    /\ main[1] = "serve"
    /\ main[2] = "serve"

\* ---- C3 ----
\* The step of the round in slot s of n: nothing else changes a running round
\* of a node that stays up.
RoundMoves(n, s) == elec'[n][s] # elec[n][s] /\ main'[n] # "down"

\* C3: a start_election on a node whose registry holds no id above its own
\* sets current_leader to the node's id, and the round sends no Election: it
\* goes on to the announcement, polls nobody, and no Election of the node
\* reaches any peer.
C3_NoHigherPeer ==
    [][\A n \in Nodes : \A s \in Slots :
          (/\ ~ \E id \in peers[n] : id > n
           /\ elec[n][s].pc \in {"start", "announce"}
           /\ RoundMoves(n, s))
          => /\ elec[n][s].pc = "start"
                  => current_leader'[n] = n /\ leader_alive'[n]
             /\ elec'[n][s].pc \in {"announce", "idle"}
             /\ elec[n][s].polled = {} /\ elec'[n][s].polled = {}
             /\ \A p \in Nodes : inbox'[p][Election(n)] <= inbox[p][Election(n)]]_vars

\* The node without a higher peer has declared itself and announces to peers
\* that listen, having polled nobody.
C3_Witness ==
    \E n \in Nodes : \E s \in Slots :
        /\ ~ \E id \in peers[n] : id > n
        /\ elec[n][s].pc = "announce"
        /\ elec[n][s].polled = {}
        /\ current_leader[n] = n
        /\ \A p \in peers[n] : Listening(p) /\ inbox[p][Election(n)] = 0

\* ---- C4 ----
\* C4: handle_message(Election{from}) on node n returns Answer{from_id: n}
\* exactly when n > from, and nothing when n <= from.
C4_AnswerIffHigher ==
    (call.op = "handle_message" /\ call.msg.kind = "Election")
        => /\ call.reply = Answer(call.node) <=> call.node > call.msg.id
           /\ call.node <= call.msg.id => call.reply = NoMessage

\* Node 2 has answered the Election of node 1.
C4_Witness ==
    /\ call.op = "handle_message"
    /\ call.node = 2
    /\ call.msg = Election(1)
    /\ call.reply = Answer(2)

\* ---- C5 ----
\* C5: a round with higher peers polls them one by one, an Election counting
\* as answered exactly when the polled peer handles it; at its end the node
\* declares itself if no Election was answered, and otherwise the round is
\* over with current_leader and leader_alive as they were.
C5_DeclareIffNoAnswer ==
    [][\A n \in Nodes : \A s \in Slots :
          (elec[n][s].pc = "poll" /\ RoundMoves(n, s))
          => IF elec[n][s].todo # {}
             THEN \E p \in elec[n][s].todo :
                     /\ p > n
                     /\ elec'[n][s].pc = "poll"
                     /\ elec'[n][s].todo = elec[n][s].todo \ {p}
                     /\ elec'[n][s].answered = (elec[n][s].answered \/ Accepting(p))
                     /\ current_leader'[n] = current_leader[n]
                     /\ leader_alive'[n] = leader_alive[n]
             ELSE IF elec[n][s].answered
             THEN /\ elec'[n][s].pc = "idle"
                  /\ current_leader'[n] = current_leader[n]
                  /\ leader_alive'[n] = leader_alive[n]
             ELSE /\ elec'[n][s].pc \in {"announce", "idle"}
                  /\ current_leader'[n] = n
                  /\ leader_alive'[n]]_vars

\* One node has declared itself after a poll nobody answered while the round
\* of another node, which was answered, is at its end.
C5_Witness ==
    \E n, q \in Nodes : \E s, r \in Slots :
        /\ elec[n][s].pc = "announce"
        /\ elec[n][s].polled # {}
        /\ current_leader[n] = n
        /\ elec[q][r].pc = "poll"
        /\ elec[q][r].todo = {}
        /\ elec[q][r].answered

\* ---- C6 ----
\* C6: handle_message(Coordinator{leader_id}) leaves current_leader = leader_id
\* and leader_alive = true and returns nothing, whatever the leader before,
\* the node's own id and its registry are.
C6_CoordinatorUnconditional ==
    [][\A n \in Nodes :
          (/\ call'.seq = call.seq + 1
           /\ call'.node = n
           /\ call'.op = "handle_message"
           /\ call'.msg.kind = "Coordinator")
          => /\ current_leader'[n] = call'.msg.id
             /\ leader_alive'[n]
             /\ call'.reply = NoMessage
             /\ ~call'.spawn
             /\ peers' = peers]_vars

\* Node 3 follows id 1, which is below its own and not in its registry.
C6_Witness ==
    /\ call.op = "handle_message"
    /\ call.node = NumNodes
    /\ call.msg = Coordinator(1)
    /\ current_leader[NumNodes] = 1
    /\ leader_alive[NumNodes]
    /\ 1 \notin peers[NumNodes]

\* ---- C7 ----
\* C7: handle_message(Heartbeat{from}) returns HeartbeatAck{from_id: self} for
\* every sender and in every election state of the receiver.
C7_HeartbeatAck ==
    (call.op = "handle_message" /\ call.msg.kind = "Heartbeat")
        => call.reply = HeartbeatAck(call.node)

\* A node that knows no leader has acknowledged the Heartbeat of an id that is
\* in no registry.
C7_Witness ==
    /\ call.op = "handle_message"
    /\ call.msg = Heartbeat(ForeignId)
    /\ call.reply = HeartbeatAck(call.node)
    /\ call.after.current_leader = None

\* ---- C8 ----
\* C8: after set_leader(k) current_leader is k and leader_alive is true, and a
\* set_leader(k) that follows a set_leader(k) leaves current_leader,
\* leader_alive and peers as the first call left them.
C8_SetLeaderIdempotent ==
    [][\A n \in Nodes :
          (/\ call'.seq = call.seq + 1
           /\ call'.node = n
           /\ call'.op = "set_leader")
          => /\ current_leader'[n] = call'.leader_id
             /\ leader_alive'[n]
             /\ peers' = peers
             /\ call'.repeat => ObjectState(n)' = call.after]_vars

\* set_leader(2) has been called twice in a row, and the node is in the state
\* the first call left.
C8_Witness ==
    /\ call.op = "set_leader"
    /\ call.repeat
    /\ call.leader_id = 2
    /\ call.node \in Nodes
    /\ ObjectState(call.node) = call.after

\* ---- C9 ----
\* C9: on a tick with another node's id as current_leader, the monitor goes
\* back to sleep only with leader_alive = true and no election started, and
\* in every other outcome, the leader missing from the registry included, it
\* calls start_election with leader_alive = false.
C9_TickOutcome ==
    [][\A n \in Nodes :
          /\ (monitor[n].pc \in {"sleep", "probe"} /\ monitor'[n].pc = "elect")
                => /\ ~leader_alive'[n]
                   /\ elec'[n][MonitorSlot].pc = "start"
          /\ (monitor[n].pc = "probe" /\ monitor'[n].pc = "sleep")
                => /\ leader_alive'[n]
                   /\ elec'[n][MonitorSlot].pc = "idle"]_vars

\* The same with the leader in the registry: what check_leader_alive does
\* after send_heartbeat has returned.
C9_RegisteredLeader ==
    [][\A n \in Nodes :
          /\ (monitor[n].pc = "probe" /\ monitor'[n].pc = "elect")
                => /\ ~leader_alive'[n]
                   /\ elec'[n][MonitorSlot].pc = "start"
          /\ (monitor[n].pc = "probe" /\ monitor'[n].pc = "sleep")
                => /\ leader_alive'[n]
                   /\ elec'[n][MonitorSlot].pc = "idle"
          /\ (monitor[n].pc = "sleep" /\ monitor'[n].pc = "probe")
                => /\ current_leader[n] \in peers[n]
                   /\ monitor'[n].target = current_leader[n]]_vars

\* ---- C10 ----
\* C10: while current_leader is None or the node's own id the sleeping
\* monitor of a node that stays up does nothing: it sends no Heartbeat and
\* starts no election, and a step that changes current_leader or leader_alive
\* then is the step of a handler or of an election round.
C10_IdleTick ==
    [][\A n \in Nodes :
          (/\ monitor[n].pc = "sleep"
           /\ current_leader[n] \in {None, n}
           /\ main'[n] # "down")
          => /\ monitor'[n] = monitor[n]
             /\ elec'[n][MonitorSlot] = elec[n][MonitorSlot]
             /\ (current_leader'[n] # current_leader[n] \/ leader_alive'[n] # leader_alive[n])
                   => \/ \E m \in Pending : inbox'[n][m] < inbox[n][m]
                      \/ \E s \in Slots : elec'[n][s] # elec[n][s]]_vars

\* A node whose monitor ticks while it knows no leader, in a cluster where
\* nothing else is under way.
C10_Witness ==
    \E n \in Nodes :
        /\ Settled
        /\ main[n] = "serve"
        /\ monitor[n].pc = "sleep"
        /\ current_leader[n] = None

\* ---- C11 ----
\* The nodes that run, and the alive set a node has computed.
Live == {n \in Nodes : main[n] # "down"}
alive_set(n) == {request[n].alive[i] : i \in 1..Len(request[n].alive)}
Accepted == {n \in Live : request[n].reply = EncryptedImageData /\ request[n].encrypted}
Rejected == {n \in Live : request[n].reply.kind = "Error" /\ ~request[n].encrypted}

\* C11 as stated: when every running node has computed the same alive set for
\* the request, all of them have the same assigned node, exactly one of them
\* has processed the request and every other one has rejected it.
C11_SameSetOneAccepts ==
    (/\ Live # {}
     /\ \A n \in Live : request[n].pc = "done"
     /\ \A n, q \in Live : alive_set(n) = alive_set(q))
    => /\ \A n, q \in Live : request[n].assigned = request[q].assigned
       /\ Cardinality(Accepted) = 1
       /\ Rejected = Live \ Accepted

\* C11 amended: the same when the common alive set is the set of the running
\* nodes.
C11_LiveSetOneAccepts ==
    (/\ Live # {}
     /\ \A n \in Live : request[n].pc = "done"
     /\ \A n \in Live : alive_set(n) = Live)
    => /\ \A n, q \in Live : request[n].assigned = request[q].assigned
       /\ Cardinality(Accepted) = 1
       /\ Rejected = Live \ Accepted

\* The three nodes run, each has computed the alive set {1, 2, 3}, node 2 has
\* processed the request and nodes 1 and 3 have rejected it naming node 2.
C11_Witness ==
    /\ Live = Nodes
    /\ \A n \in Nodes : request[n].pc = "done" /\ alive_set(n) = Nodes
    /\ Accepted = {2}
    /\ request[1].reply = Error(2)
    /\ request[NumNodes].reply = Error(2)

\* ---- C12 ----
Done == {n \in Nodes : request[n].pc = "done"}
assigned_of(n) ==
    request[n].alive[(request[n].hash % Len(request[n].alive)) + 1]

\* C12: a handle_client_request that has returned with a non-empty alive list
\* has returned EncryptedImageData exactly when alive[hash mod len] is the
\* local id; otherwise it has returned the Error whose message names that
\* assigned node and encrypt_data has not been called.
C12_AcceptIffAssigned ==
    \A n \in Done :
        request[n].alive # <<>> =>
            /\ request[n].reply = EncryptedImageData <=> assigned_of(n) = n
            /\ assigned_of(n) # n =>
                   /\ request[n].reply = Error(assigned_of(n))
                   /\ ~request[n].encrypted
            /\ assigned_of(n) = n => request[n].encrypted

\* Node 1 has returned with an alive list of two nodes; hash 3 picks index 1,
\* the peer in it, and node 1 has replied with the Error naming that peer
\* without encrypting; another node has been assigned its own id and has
\* replied with the encrypted image.
C12_Witness ==
    /\ 1 \in Done
    /\ Len(request[1].alive) = 2
    /\ request[1].hash = 3
    /\ request[1].reply = Error(request[1].alive[2])
    /\ ~request[1].encrypted
    /\ \E n \in Done : assigned_of(n) = n /\ request[n].reply = EncryptedImageData

\* ---- C13 ----
ascending(s) == \A i, j \in 1..Len(s) : i < j => s[i] < s[j]

\* C13: the list get_alive_nodes has returned holds the local id, holds a peer
\* exactly when the connect to it succeeded, is strictly ascending, is not
\* empty, and handle_client_request has not taken the branch of the empty
\* list.
C13_AliveList ==
    \A n \in Done :
        /\ n \in alive_set(n)
        /\ alive_set(n) \ {n} = request[n].ok
        /\ request[n].ok \subseteq get_all_peers(n)
        /\ ascending(request[n].alive)
        /\ request[n].alive # <<>>
        /\ request[n].assigned # None

\* Node 2 has probed node 1 with success and node 3 without (node 3 had
\* stopped): its list is <<1, 2>>, sorted although 2 was pushed first.
C13_Witness ==
    /\ 2 \in Done
    /\ request[2].ok = {1}
    /\ main[NumNodes] = "down"
    /\ request[2].alive = <<1, 2>>

\* ---- C14 ----
registered_next(id) ==
    LET r == history.registered
        i == CHOOSE i \in 1..Len(r) : r[i] = id
    IN r[(i % Len(r)) + 1]

\* With k servers registered and all available, and no registration or
\* availability change between the calls: any k consecutive get_next_server
\* calls have returned k different ids, and a call returns what the call k
\* calls before it returned.
C14_EachOnceThenRepeats ==
    LET k == Cardinality(DOMAIN servers)
        r == history.returned
    IN /\ \A i, j \in 1..Len(r) : (i < j /\ j < i + k) => r[i] # r[j]
       /\ \A i \in 1..Len(r) : i + k <= Len(r) => r[i + k] = r[i]
       /\ \A i \in 1..Len(r) : r[i] \in DOMAIN servers

\* C14 as stated: that, and the ids come in registration order, each call
\* returning the server registered after the one the call before returned
\* (the first registered after the last).
C14_RegistrationOrder ==
    /\ C14_EachOnceThenRepeats
    /\ \A i \in 1..(Len(history.returned) - 1) :
          history.returned[i + 1] = registered_next(history.returned[i])

\* ---- C15 ----
Available == {id \in DOMAIN servers : servers[id].available}

\* C15: get_least_loaded_server has returned None when no server is
\* available, and otherwise an available server no available server has a
\* smaller load than.
C15_LeastLoaded ==
    lb_call.op = "get_least_loaded_server" =>
        IF Available = {} THEN lb_call.reply = None
        ELSE /\ lb_call.reply \in Available
             /\ \A id \in Available :
                   servers[lb_call.reply].current_load <= servers[id].current_load

\* get_least_loaded_server has returned a server of load 1 while a server of
\* load 0 is registered and unavailable.
C15_Witness ==
    /\ lb_call.op = "get_least_loaded_server"
    /\ lb_call.reply \in Available
    /\ servers[lb_call.reply].current_load = 1
    /\ \E id \in DOMAIN servers \ Available : servers[id].current_load = 0

\* ---- C16 ----
AbsentOps ==
    {"update_server_load", "mark_server_available", "mark_server_unavailable",
     "unregister_server"}

\* C16: a call of update_server_load, mark_server_available,
\* mark_server_unavailable or unregister_server with an id that is not
\* registered leaves the map, the order of its entries and the cursor as they
\* were, and the id stays unregistered.
C16_AbsentIdNoChange ==
    [][(/\ lb_call'.seq = lb_call.seq + 1
        /\ lb_call'.op \in AbsentOps
        /\ lb_call'.server_id \notin DOMAIN servers)
       => /\ servers' = servers
          /\ next_index' = next_index
          /\ values_order' = values_order]_vars

\* update_server_load has been called with an id that is not registered,
\* while another server is registered and the cursor has left 0.
C16_Witness ==
    /\ lb_call.op = "update_server_load"
    /\ lb_call.server_id \notin DOMAIN servers
    /\ DOMAIN servers # {}
    /\ next_index > 0

\* ---- C17 ----
\* C17 as stated: on every node current_leader is None, the node's own id or
\* an id of the node's peer registry.
C17_LeaderKnown ==
    \A n \in Nodes : current_leader[n] \in ({None, n} \cup peers[n])

\* ---- C18 ----
Returned(n) == main[n] \in {"settle", "serve"}

\* C18 as stated: a node whose first start_election call has returned has
\* current_leader set, and a current_leader that is set is not None after any
\* step.
C18_SetAfterFirstElection ==
    [][\A n \in Nodes :
          /\ Returned(n)' => current_leader'[n] # None
          /\ current_leader[n] # None => current_leader'[n] # None]_vars

\* C18 amended: a node whose first start_election call returns after it
\* declared the node leader (the call got no Answer) has current_leader set,
\* and a current_leader that is set is not None after any step.
C18_SetOnceDeclared ==
    [][\A n \in Nodes :
          /\ (/\ main[n] = "elect"
              /\ Returned(n)'
              /\ ~elec[n][MainSlot].answered) => current_leader'[n] # None
          /\ current_leader[n] # None => current_leader'[n] # None]_vars

\* The first start_election of one node has returned after declaring it
\* leader, at the end of a poll nobody answered, and the one of another node
\* has returned after an Answer, current_leader still None.
C18_Witness ==
    \E n, q \in Nodes :
        /\ Returned(n)
        /\ higher_nodes(n) # {}
        /\ current_leader[n] = n
        /\ Returned(q)
        /\ current_leader[q] = None

\* ---- C19 ----
\* The guards alive at the await of each network call.
\* check_leader_alive: `let peers = self.peers.read().await` (bully.rs:97) is
\* a named guard, leader_info borrows from it, and send_heartbeat is awaited at
\* bully.rs:99 inside its scope, which ends at bully.rs:114.
heartbeat_locks == {"peers"}
\* start_election: `self.peers.read().await.clone()` (bully.rs:153), the guard
\* is a temporary dropped at the end of the statement.
election_locks == {}
\* announce_coordinator: the same at bully.rs:198.
coordinator_locks == {}

\* The locks the tasks of node n hold while they wait for a connect, a write
\* or a read.
locks_held(n) ==
    UNION ({IF monitor[n].pc = "probe" THEN heartbeat_locks ELSE {}}
           \cup {IF elec[n][s].pc = "poll" THEN election_locks ELSE {} : s \in Slots}
           \cup {IF elec[n][s].pc = "announce" THEN coordinator_locks ELSE {} :
                     s \in Slots})

\* C19 as stated: no task of any node holds a lock on peers, current_leader or
\* leader_alive while it waits for the network.
C19_NoLockAcrossNetwork ==
    \A n \in Nodes : locks_held(n) \cap Locks = {}

\* ---- C20 ----
Declares(n, s) ==
    \/ elec[n][s].pc = "start" /\ higher_nodes(n) = {}
    \/ elec[n][s].pc = "poll" /\ elec[n][s].todo = {} /\ ~elec[n][s].answered

\* C20: the step in which a round declares its node sets current_leader to
\* the node's id and sends nothing, and leaves every registered peer to be
\* announced to; each later step of the round sends Coordinator with the
\* node's id to one of the peers left, takes it off the list whether the send
\* succeeded or not, leaves current_leader alone, and the round ends with the
\* last peer only.
C20_AnnounceToAll ==
    [][\A n \in Nodes : \A s \in Slots :
          /\ (Declares(n, s) /\ RoundMoves(n, s))
             => /\ current_leader'[n] = n
                /\ inbox' = inbox
                /\ peers[n] # {}
                      => elec'[n][s].pc = "announce" /\ elec'[n][s].todo = peers[n]
          /\ (elec[n][s].pc = "announce" /\ RoundMoves(n, s))
             => \E p \in elec[n][s].todo :
                   /\ inbox' = Deliver(inbox, p, Coordinator(n))
                   /\ current_leader'[n] = current_leader[n]
                   /\ IF elec[n][s].todo = {p}
                      THEN elec'[n][s].pc = "idle"
                      ELSE /\ elec'[n][s].pc = "announce"
                           /\ elec'[n][s].todo = elec[n][s].todo \ {p}]_vars

\* A node that declared itself has tried a peer that has never listened, and
\* goes on with a peer left that listens, still its own leader.
C20_Witness ==
    \E n \in Nodes : \E s \in Slots : \E p \in peers[n] :
        /\ elec[n][s].pc = "announce"
        /\ current_leader[n] = n
        /\ p \notin elec[n][s].todo
        /\ main[p] = "new"
        /\ \E q \in elec[n][s].todo : Listening(q)

\* ---- C21 ----
\* Node n serves without a leader, no election of it runs, no message waits
\* at it.
Leaderless(n) ==
    /\ main[n] = "serve"
    /\ current_leader[n] = None
    /\ \A s \in Slots : elec[n][s].pc = "idle"
    /\ \A m \in Pending : inbox[n][m] = 0

\* No task of another node moves in the step.
Alone(n) ==
    \A q \in Nodes \ {n} :
        main'[q] = main[q] /\ elec'[q] = elec[q] /\ monitor'[q] = monitor[q]

\* C21: a node that serves without a leader stays so for as long as it runs
\* and no other node sends it anything: no step of its own tasks, the turns of
\* its monitor among them, sets current_leader or starts an election.
C21_LeaderlessForGood ==
    [][\A n \in Nodes :
          (Leaderless(n) /\ Alone(n) /\ main'[n] # "down") => Leaderless(n)']_vars

\* Node 2 serves without a leader: its start_election has returned without
\* declaring it, on the Answer of node 3, the only higher peer, which has
\* stopped since without a Coordinator having reached node 2; no other node
\* runs.
C21_Witness ==
    /\ Leaderless(2)
    /\ higher_nodes(2) = {NumNodes}
    /\ main[NumNodes] = "down"
    /\ \A q \in Nodes \ {2} : ~Listening(q)
    /\ monitor[2].pc = "sleep"

\* ---- C22 ----
Serving == {n \in Nodes : main[n] = "serve"}

\* A serving node has a serving node of a lower id than its own as leader
\* while another serving node has another leader.
StaleLeader ==
    \E n, q \in Serving :
        /\ current_leader[n] \in Serving
        /\ current_leader[n] < n
        /\ current_leader[q] # current_leader[n]

\* C22: in a settled cluster in which a stale Coordinator has left the nodes
\* in disagreement and every node's leader runs, no step corrects it for as
\* long as no node starts or stops: every heartbeat is acknowledged, no
\* election starts, every current_leader stays.
C22_StaleLeaderStays ==
    [][(/\ Settled
        /\ StaleLeader
        /\ \A n \in Serving : current_leader[n] \in Serving
        /\ main' = main)
       => /\ current_leader' = current_leader
          /\ Settled'
          /\ \A n \in Nodes : monitor'[n].pc # "elect"]_vars

\* The three nodes serve, none was lost, nothing runs or waits: node 3, which
\* declared itself before it served, has handled the Coordinator of node 2's
\* earlier election last and has node 2 as leader; nodes 1 and 2 have node 3.
C22_Witness ==
    /\ crashes = 0
    /\ AllServing
    /\ Settled
    /\ current_leader = [n \in Nodes |-> IF n = NumNodes THEN 2 ELSE NumNodes]
    /\ \A n \in Nodes : monitor[n].pc = "sleep"

\* ---- C23 ----
\* C23: a handle_message(Election) that returns an Answer spawns one task, the
\* other rounds of the node staying as they are, and the task comes to call
\* start_election; one that returns no Answer leaves every round as it is.
C23_AnswerThenElection ==
    /\ \A n \in Nodes : \A s \in SpawnSlots :
          (elec[n][s].pc = "start") ~> (elec[n][s].pc \in {"poll", "announce", "idle"})
    /\ [][(/\ call'.seq = call.seq + 1
           /\ call'.op = "handle_message"
           /\ call'.msg.kind = "Election")
          => IF call'.reply.kind = "Answer"
             THEN \E s \in SpawnSlots :
                     /\ elec[call'.node][s].pc = "idle"
                     /\ elec' = [elec EXCEPT ![call'.node][s] = StartRound]
             ELSE elec' = elec]_vars

\* Node 2 has answered the Election of node 1 and the task it spawned has
\* called start_election since: its round polls node 3.
C23_Witness ==
    /\ call.op = "handle_message"
    /\ call.node = 2
    /\ call.msg = Election(1)
    /\ call.reply = Answer(2)
    /\ \E s \in SpawnSlots : elec[2][s].pc = "poll" /\ elec[2][s].todo = {NumNodes}

\* ---- C24 ----
StartupOrder ==
    {<<"new", "elect">>, <<"elect", "settle">>, <<"settle", "serve">>}

\* A connection of node n is handled in the step: a waiting message is taken
\* or a task is spawned for an Election.
Handles(n) ==
    \/ \E m \in Pending : inbox'[n][m] < inbox[n][m]
    \/ \E s \in SpawnSlots : elec[n][s].pc = "idle" /\ elec'[n][s].pc = "start"

\* C24: start goes from the bind to the initial election, to the wait after
\* it and to the accept loop, in that order; a node in the accept loop has its
\* initial start_election behind it and its monitor started; a connection is
\* handled by a node in the accept loop only, and an Election written to a
\* node that is not there yet gets no Answer.
C24_AcceptLast ==
    [][\A n \in Nodes :
          /\ (main'[n] # main[n] /\ main'[n] # "down")
                => <<main[n], main'[n]>> \in StartupOrder
          /\ main'[n] = "serve"
                => elec'[n][MainSlot].pc = "idle" /\ monitor'[n].pc # "off"
          /\ (Handles(n) /\ main'[n] # "down") => main[n] = "serve"
          /\ \A q \in Nodes : \A s \in Slots :
                (/\ elec[q][s].pc = "poll"
                 /\ n \in elec[q][s].todo
                 /\ n \notin elec'[q][s].todo
                 /\ elec'[q][s].pc = "poll"
                 /\ main[n] # "serve")
                => elec'[q][s].answered = elec[q][s].answered]_vars

\* A node has bound its listener and runs its initial election or waits
\* after it, and a message written to it waits unhandled.
C24_Witness ==
    \E n \in Nodes : \E m \in Pending :
        /\ main[n] \in {"elect", "settle"}
        /\ inbox[n][m] > 0
        /\ monitor[n].pc = "off"

\* ---- C25 ----
\* C25: a get_next_server call with k >= 1 available servers returns the
\* available server at place cursor mod k of the available ones and leaves
\* the cursor at (cursor + 1) mod k, below k; with no available server it
\* returns None and leaves the cursor; no call changes the map, and no other
\* method moves the cursor.
C25_CursorWraps ==
    [][LET k == Len(available_servers)
       IN IF lb_call'.op = "get_next_server"
          THEN /\ servers' = servers
               /\ IF k >= 1
                  THEN /\ lb_call'.reply = available_servers[(next_index % k) + 1]
                       /\ lb_call'.reply \in Available
                       /\ next_index' = (next_index + 1) % k
                       /\ next_index' < k
                  ELSE /\ lb_call'.reply = None
                       /\ next_index' = next_index
          ELSE next_index' = next_index]_vars

\* get_next_server has returned one of the two available servers of three
\* registered and the cursor has wrapped to 0.
C25_Witness ==
    /\ lb_call.op = "get_next_server"
    /\ lb_call.reply \in Available
    /\ Cardinality(Available) = 2
    /\ Cardinality(DOMAIN servers) = 3
    /\ next_index = 0

\* ---- C26 ----
\* C26 as stated: a node in the accept loop holds a LoadBalancer exactly
\* when its current_leader is its own id.
C26_BalancerIffLeader ==
    \A n \in Serving : load_balancer[n] <=> current_leader[n] = n

\* ---- C27 ----
\* C27 as stated: a heartbeat probe that returns without an acknowledgement
\* and sets leader_alive to false was sent to the node that is current_leader
\* when the result is written.
C27_ProbeOfPresentLeader ==
    [][\A n \in Nodes :
          (/\ monitor[n].pc = "probe"
           /\ monitor'[n].pc # "probe"
           /\ main'[n] # "down"
           /\ ~leader_alive'[n])
          => monitor[n].target = current_leader'[n]]_vars

\* ---- C28 ----
\* Task t waits for task u: t is in the queue of a lock that u holds in a mode
\* that keeps t out, or in which u is ahead of t.
WaitsFor(t, u) ==
    \E l \in Locks : \E i \in 1..Len(waiters[l]) :
        /\ waiters[l][i][1] = t
        /\ \/ \E h \in holders[l] :
                 h[1] = u /\ (h[2] = "write" \/ waiters[l][i][2] = "write")
           \/ \E j \in 1..(i - 1) : waiters[l][j][1] = u

\* The tasks t waits for through at most k tasks.
RECURSIVE WaitChain(_, _)
WaitChain(t, k) ==
    IF k = 0 THEN {t}
    ELSE LET S == WaitChain(t, k - 1)
         IN S \cup {u \in LockTasks : \E v \in S : WaitsFor(v, u)}

WaitCycle ==
    \E t, u \in LockTasks : WaitsFor(t, u) /\ t \in WaitChain(u, MaxTasks)

\* C28: in no state do tasks wait for each other in a cycle, and a task that
\* waits for a lock comes to hold it.
C28_NoDeadlock ==
    /\ [](~WaitCycle)
    /\ \A t \in LockTasks : \A l \in Locks : Waiting(t, l) ~> Holding(t, l)

\* A task in check_leader_alive holds the read lock of peers and waits for
\* leader_alive, which a task in set_leader holds together with
\* current_leader, while a third task waits for the write lock of peers.
C28_Witness ==
    \E t, u, v \in LockTasks :
        /\ Holding(t, "peers") /\ Waiting(t, "leader_alive")
        /\ Holding(u, "leader_alive") /\ Holding(u, "current_leader")
        /\ Waiting(v, "peers") /\ task[v].method = "add_peer"

====
